---- MODULE Spec2Model ----
(***************************************************************************)
(* A model of sc-chain-spec's ChainSpec (client/chain-spec/src/            *)
(* chain_spec.rs): the four genesis sources and their resolution, storage  *)
(* building, the JSON dump and load, the light sync state blobs, and the   *)
(* operations of the ChainSpec trait object.                               *)
(*                                                                         *)
(* Byte strings (storage keys and values) are the elements of Bytes.  A    *)
(* HashMap is a function on its key set.  JSON values are tagged records.  *)
(* The type parameter E is NoExtension (the default, line 171).            *)
(***************************************************************************)
EXTENDS Integers, Sequences, FiniteSets, TLC

VARIABLES
    obj,        \* the heap: object id -> the ChainSpec stored there, or NoObj
    ref,        \* handle -> the object id it owns, 0 before construction
    cloneOf,    \* handle -> the handle it was cloned from, "" if it was not
    ctorRuns,   \* object id -> times a call on that spec ran a Factory constructor
    input,      \* what the caller holds in this run: the file system, a Storage,
                \* a document, a serialized light sync state
    last,       \* the last operation: its name, handle, arguments, result, and
                \* how often it ran the constructor and G's build_storage
    pallet      \* the example-parallel pallet: its storage items Participants and
                \* CurrentEventId, and the enlist_participants call in progress

vars == <<obj, ref, cloneOf, ctorRuns, input, last, pallet>>

-----------------------------------------------------------------------------
(* Bounds of the model *)

MaxBootNodes == 2    \* boot nodes a spec may hold
MaxCalls == 2        \* resolutions of one Factory spec
MaxBlobLen == 3      \* bytes of a light sync state blob
MaxEdits == 2        \* fields in which a document differs from a base document
MaxParticipants == 3 \* participants submitted in one enlist_participants call
MaxEnlisted == 3     \* accounts held in Participants
MaxEntries == 4      \* entries of a Storage: its top pairs, its partitions, their pairs

-----------------------------------------------------------------------------
(* Values *)

Bytes == {1, 2}
Handles == {"a", "b"}
ObjIds == {1, 2}
NoObj == [none |-> TRUE]

Ok(v) == [ok |-> TRUE, val |-> v]
Err(e) == [ok |-> FALSE, err |-> e]
None == [some |-> FALSE]
Some(v) == [some |-> TRUE, v |-> v]

Maps(K, V) == UNION {[D -> V] : D \in SUBSET K}

\* Iterator::collect into a HashMap: one entry per key of the pairs.
Collect(pairs) ==
    [k \in {p[1] : p \in pairs} |-> (CHOOSE p \in pairs : p[1] = k)[2]]

Iter(m) == {<<k, m[k]>> : k \in DOMAIN m}

StorageKey(k) == <<"StorageKey", k>>
StorageData(v) == <<"StorageData", v>>
Field0(w) == w[2]

ChildInfoNewDefault(k) == [kind |-> "ParentKeyId", data |-> k]

StorageChildren == [data : Maps(Bytes, Bytes), child_info : {ChildInfoNewDefault(k) : k \in Bytes}]

RECURSIVE SumOver(_, _)
SumOver(f, D) ==
    IF D = {} THEN 0
    ELSE LET k == CHOOSE k \in D : TRUE IN f[k] + SumOver(f, D \ {k})

Entries(s) ==
    Cardinality(DOMAIN s.top)
        + SumOver([k \in DOMAIN s.children_default |->
                      1 + Cardinality(DOMAIN s.children_default[k].data)],
                  DOMAIN s.children_default)

\* Every Storage over Bytes of at most MaxEntries entries; a partition's
\* child_info need not name the key it is stored under.
Storages ==
    {s \in [top : Maps(Bytes, Bytes), children_default : Maps(Bytes, StorageChildren)] :
        Entries(s) <= MaxEntries}
EmptyStorage == [top |-> <<>>, children_default |-> <<>>]

RawGenesis(top, children_default) == [top |-> top, children_default |-> children_default]
Runtime(g) == [variant |-> "Runtime", g |-> g]
Raw(r) == [variant |-> "Raw", raw |-> r]

\* The typed genesis G is external: all this layer uses is its build_storage
\* (a Result<Storage, String>) and its serde form.
TypedGenesis(built) == [built |-> built]
GBuildStorage(g) == g.built

\* A constructor closure Fn() -> G.
Ctor(g) == [ret |-> g]
CallCtor(f) == f.ret

File(path) == [tag |-> "File", path |-> path]
Binary(buf) == [tag |-> "Binary", buf |-> buf]
Factory(f) == [tag |-> "Factory", f |-> f]
StorageSource(s) == [tag |-> "Storage", storage |-> s]

-----------------------------------------------------------------------------
(* JSON values and byte buffers *)

JNull == [j |-> "null"]
JStr(s) == [j |-> "str", s |-> s]
JNum(n) == [j |-> "num", n |-> n]
JArr(a) == [j |-> "arr", a |-> a]
JObj(o) == [j |-> "obj", o |-> o]
JHex(b) == [j |-> "hex", b |-> b]
JTyped(g) == [j |-> "typed", g |-> g]

IsObj(v) == v.j = "obj"
Has(v, f) == f \in DOMAIN v.o

\* A buffer either holds the text of a JSON value or is not JSON at all.
JsonText(v) == [valid |-> TRUE, json |-> v]
NotJson == [valid |-> FALSE]
FromSlice(buf) == IF buf.valid THEN Ok(buf.json) ELSE Err("syntax")

\* impl_serde's hex form of a byte string.
Hex(b) == CASE b = 1 -> "0x01" [] b = 2 -> "0x02"
IsHex(s) == \E b \in Bytes : Hex(b) = s
FromHex(s) == CHOOSE b \in Bytes : Hex(b) = s

-----------------------------------------------------------------------------
(* serde: Serialize *)

\* GenesisStorage = HashMap<StorageKey, StorageData>, keys and values in hex.
SerGenesisStorage(m) ==
    JObj([s \in {Hex(Field0(k)) : k \in DOMAIN m} |->
             JStr(Hex(Field0(m[StorageKey(FromHex(s))])))])

SerRawGenesis(r) ==
    JObj([top |-> SerGenesisStorage(r.top),
          childrenDefault |->
             JObj([s \in {Hex(Field0(k)) : k \in DOMAIN r.children_default} |->
                      SerGenesisStorage(r.children_default[StorageKey(FromHex(s))])])])

SerGenesis(gen) ==
    IF gen.variant = "Runtime"
    THEN JObj([runtime |-> JTyped(gen.g)])
    ELSE JObj([raw |-> SerRawGenesis(gen.raw)])

SerLightSyncState(l) ==
    JObj([finalizedBlockHeader |-> JHex(Field0(l.finalized_block_header)),
          babeEpochChanges |-> JHex(Field0(l.babe_epoch_changes)),
          babeFinalizedBlockWeight |-> JNum(l.babe_finalized_block_weight),
          grandpaAuthoritySet |-> JHex(Field0(l.grandpa_authority_set))])

\* The fields a ClientSpec<NoExtension> writes: genesis is skip_serializing
\* and the flattened extensions (None) write nothing.
\* Serialize of the type named ty.
SerField(ty, x) ==
    CASE ty = "String" -> JStr(x)
      [] ty = "Properties" -> JObj(x)
      [] ty = "LightSyncState" -> SerLightSyncState(x)

\* An Option<T> field: None is null.
SerOption(o, ty) == IF o.some THEN SerField(ty, o.v) ELSE JNull

\* A serializer that leaves the legacy field out.
SerClientSpecFields_NoLegacy(c) ==
    [name |-> JStr(c.name),
     id |-> JStr(c.id),
     chainType |-> JStr(c.chain_type),
     bootNodes |-> JArr([i \in DOMAIN c.boot_nodes |-> JStr(c.boot_nodes[i])]),
     telemetryEndpoints |-> SerOption(c.telemetry_endpoints, "String"),
     protocolId |-> SerOption(c.protocol_id, "String"),
     properties |-> SerOption(c.properties, "Properties"),
     lightSyncState |-> SerOption(c.light_sync_state, "LightSyncState")]

SerClientSpecFields(c) ==
    [name |-> JStr(c.name),
     id |-> JStr(c.id),
     chainType |-> JStr(c.chain_type),
     bootNodes |-> JArr([i \in DOMAIN c.boot_nodes |-> JStr(c.boot_nodes[i])]),
     telemetryEndpoints |-> SerOption(c.telemetry_endpoints, "String"),
     protocolId |-> SerOption(c.protocol_id, "String"),
     properties |-> SerOption(c.properties, "Properties"),
     consensusEngine |-> JNull,
     lightSyncState |-> SerOption(c.light_sync_state, "LightSyncState")]

SerJsonContainer(container) ==
    JObj(SerClientSpecFields(container.client_spec)
            @@ [genesis |-> SerGenesis(container.genesis)])

-----------------------------------------------------------------------------
(* serde: Deserialize *)

ChainTypes == {"Development", "Local", "Live"}
ChainTypeDefault == "Live"
BootNodeAddrs == {"/dns/a/p2p/Qa", "/dns/b/p2p/Qb"}

DeString(v) == IF v.j = "str" THEN Ok(v.s) ELSE Err("invalid type")

DeBlob(v) == IF v.j = "hex" THEN Ok(StorageData(v.b)) ELSE Err("invalid type")

DeGenesisStorage(v) ==
    IF ~IsObj(v) THEN Err("invalid type")
    ELSE IF \E s \in DOMAIN v.o : ~IsHex(s) \/ v.o[s].j # "str" THEN Err("invalid hex")
    ELSE IF \E s \in DOMAIN v.o : ~IsHex(v.o[s].s) THEN Err("invalid hex")
    ELSE Ok(Collect({<<StorageKey(FromHex(s)), StorageData(FromHex(v.o[s].s))>> :
                        s \in DOMAIN v.o}))

\* The children_default map of a RawGenesis.
DeChildrenDefault(cd) ==
    IF ~IsObj(cd) THEN Err("invalid type")
    ELSE IF \E s \in DOMAIN cd.o : ~IsHex(s) \/ ~DeGenesisStorage(cd.o[s]).ok
    THEN Err("invalid child")
    ELSE Ok(Collect({<<StorageKey(FromHex(s)), DeGenesisStorage(cd.o[s]).val>> :
                        s \in DOMAIN cd.o}))

RawGenesisOf(top, children_default) ==
    IF ~top.ok THEN top
    ELSE IF ~children_default.ok THEN children_default
    ELSE Ok(RawGenesis(top.val, children_default.val))

\* struct RawGenesis, deny_unknown_fields, both fields required.
DeRawGenesis(v) ==
    IF ~IsObj(v) THEN Err("invalid type")
    ELSE IF DOMAIN v.o \ {"top", "childrenDefault"} # {} THEN Err("unknown field")
    ELSE IF ~Has(v, "top") \/ ~Has(v, "childrenDefault") THEN Err("missing field")
    ELSE RawGenesisOf(DeGenesisStorage(v.o.top), DeChildrenDefault(v.o.childrenDefault))

DeTypedGenesis(v) == IF v.j = "typed" THEN Ok(v.g) ELSE Err("invalid type")

AsRuntime(g) == IF g.ok THEN Ok(Runtime(g.val)) ELSE g
AsRaw(r) == IF r.ok THEN Ok(Raw(r.val)) ELSE r

\* enum Genesis<G>, externally tagged, variants runtime and raw.
DeGenesis(v) ==
    IF ~IsObj(v) \/ Cardinality(DOMAIN v.o) # 1 THEN Err("invalid type")
    ELSE IF Has(v, "runtime") THEN AsRuntime(DeTypedGenesis(v.o.runtime))
    ELSE IF Has(v, "raw") THEN AsRaw(DeRawGenesis(v.o.raw))
    ELSE Err("unknown variant")

\* struct GenesisContainer<G> { genesis }: other fields are ignored.
DeGenesisContainer(v) ==
    IF ~IsObj(v) THEN Err("invalid type")
    ELSE IF ~Has(v, "genesis") THEN Err("missing field")
    ELSE DeGenesis(v.o.genesis)

DeLightSyncState(v) ==
    LET fields == {"finalizedBlockHeader", "babeEpochChanges",
                   "babeFinalizedBlockWeight", "grandpaAuthoritySet"}
    IN  IF ~IsObj(v) THEN Err("invalid type")
        ELSE IF DOMAIN v.o \ fields # {} THEN Err("unknown field")
        ELSE IF fields \ DOMAIN v.o # {} THEN Err("missing field")
        ELSE IF \/ ~DeBlob(v.o.finalizedBlockHeader).ok
                \/ ~DeBlob(v.o.babeEpochChanges).ok
                \/ v.o.babeFinalizedBlockWeight.j # "num"
                \/ ~DeBlob(v.o.grandpaAuthoritySet).ok
             THEN Err("invalid type")
        ELSE Ok([finalized_block_header |-> DeBlob(v.o.finalizedBlockHeader).val,
                 babe_epoch_changes |-> DeBlob(v.o.babeEpochChanges).val,
                 babe_finalized_block_weight |-> v.o.babeFinalizedBlockWeight.n,
                 grandpa_authority_set |-> DeBlob(v.o.grandpaAuthoritySet).val])

AsSome(r) == IF r.ok THEN Ok(Some(r.val)) ELSE r

DeChainType(v) ==
    IF v.j = "str" /\ v.s \in ChainTypes THEN Ok(v.s) ELSE Err("unknown variant")

DeBootNodes(v) ==
    IF v.j # "arr" THEN Err("invalid type")
    ELSE IF \E i \in DOMAIN v.a : v.a[i].j # "str" THEN Err("invalid type")
    ELSE IF \E i \in DOMAIN v.a : v.a[i].s \notin BootNodeAddrs THEN Err("invalid multiaddr")
    ELSE Ok([i \in DOMAIN v.a |-> v.a[i].s])

DeProperties(v) == IF IsObj(v) THEN Ok(v.o) ELSE Err("invalid type")

ClientSpecFields ==
    {"name", "id", "chainType", "bootNodes", "telemetryEndpoints", "protocolId",
     "properties", "consensusEngine", "genesis", "lightSyncState"}

\* A field with neither a default nor an Option type must be present
\* (serde's missing_field): a String, a Vec, the unit consensus_engine and
\* the IgnoredAny genesis alike.
DeUnit(v) == IF v = JNull THEN Ok(<<>>) ELSE Err("invalid type")

DeIgnoredAny(v) == Ok("IgnoredAny")

\* Deserialize of the field type named ty.
DeField(ty, x) ==
    CASE ty = "String" -> DeString(x)
      [] ty = "ChainType" -> DeChainType(x)
      [] ty = "BootNodes" -> DeBootNodes(x)
      [] ty = "Properties" -> DeProperties(x)
      [] ty = "Unit" -> DeUnit(x)
      [] ty = "IgnoredAny" -> DeIgnoredAny(x)
      [] ty = "LightSyncState" -> DeLightSyncState(x)

\* A field with neither a default nor an Option type must be present
\* (serde's missing_field).
DeRequired(v, f, ty) == IF Has(v, f) THEN DeField(ty, v.o[f]) ELSE Err("missing field")

\* #[serde(default)]
DeDefault(v, f, ty, d) == IF Has(v, f) THEN DeField(ty, v.o[f]) ELSE Ok(d)

\* An Option<T> field: absent or null is None.
DeOption(v, f, ty) ==
    IF ~Has(v, f) \/ v.o[f] = JNull THEN Ok(None) ELSE AsSome(DeField(ty, v.o[f]))

\* The flattened extensions: NoExtension = Option<()> takes no field.
ExtensionFields == {}

\* The ClientSpec of the deserialized fields, or the first error among them.
ClientSpecOf(v, parts) ==
    IF \E i \in DOMAIN parts : ~parts[i].ok
    THEN parts[CHOOSE i \in DOMAIN parts :
                  ~parts[i].ok /\ \A k \in 1..(i - 1) : parts[k].ok]
    ELSE IF DOMAIN v.o \ (ClientSpecFields \cup ExtensionFields) # {}
    THEN Err("unknown field")
    ELSE Ok([name |-> parts[1].val,
             id |-> parts[2].val,
             chain_type |-> parts[3].val,
             boot_nodes |-> parts[4].val,
             telemetry_endpoints |-> parts[5].val,
             protocol_id |-> parts[6].val,
             properties |-> parts[7].val,
             extensions |-> None,
             consensus_engine |-> parts[8].val,
             genesis |-> parts[9].val,
             light_sync_state |-> parts[10].val])

\* struct ClientSpec<NoExtension>, deny_unknown_fields.
DeClientSpec(v) ==
    IF ~IsObj(v) THEN Err("invalid type")
    ELSE ClientSpecOf(v,
            <<DeRequired(v, "name", "String"),
              DeRequired(v, "id", "String"),
              DeDefault(v, "chainType", "ChainType", ChainTypeDefault),
              DeRequired(v, "bootNodes", "BootNodes"),
              DeOption(v, "telemetryEndpoints", "String"),
              DeOption(v, "protocolId", "String"),
              DeOption(v, "properties", "Properties"),
              DeRequired(v, "consensusEngine", "Unit"),
              DeRequired(v, "genesis", "IgnoredAny"),
              DeOption(v, "lightSyncState", "LightSyncState")>>)

-----------------------------------------------------------------------------
(* GenesisSource and ChainSpec *)

MapErr(r, prefix) == IF r.ok THEN r ELSE [ok |-> FALSE, err |-> prefix, cause |-> r.err]

\* File::open on the caller's file system fs (path -> buffer).
FileOpen(fs, path) == IF path \in DOMAIN fs THEN Ok(fs[path]) ELSE Err("No such file")

\* json::from_slice into a ClientSpec<E>.
ParseClientSpec(buf) ==
    IF FromSlice(buf).ok THEN DeClientSpec(FromSlice(buf).val) ELSE FromSlice(buf)

\* json::from_reader / json::from_slice into a GenesisContainer<G>.
ReadGenesisContainer(buf) ==
    IF FromSlice(buf).ok THEN DeGenesisContainer(FromSlice(buf).val) ELSE FromSlice(buf)

\* What resolving the Storage source makes of the snapshot.
StorageToRaw(storage) ==
    LET top == Collect({<<StorageKey(p[1]), StorageData(p[2])>> : p \in Iter(storage.top)})
        children_default ==
            Collect({<<StorageKey(p[1]),
                       Collect({<<StorageKey(q[1]), StorageData(q[2])>> : q \in Iter(p[2].data)})>> :
                        p \in Iter(storage.children_default)})
    IN  RawGenesis(top, children_default)

\* The File arm of resolve, given what File::open returned.
ResolveFile(file) ==
    IF ~file.ok THEN file
    ELSE MapErr(ReadGenesisContainer(file.val), "Error parsing spec file")

\* A resolve that answers a Factory from a remembered genesis.
resolve_memoised(src, fs) ==
    CASE src.tag = "File" ->
            [res |-> ResolveFile(MapErr(FileOpen(fs, src.path), "Error opening spec file")),
             ctor |-> 0]
      [] src.tag = "Binary" ->
            [res |-> MapErr(ReadGenesisContainer(src.buf), "Error parsing embedded file"),
             ctor |-> 0]
      [] src.tag = "Factory" ->
            [res |-> Ok(Runtime(CallCtor(src.f))), ctor |-> 0]
      [] src.tag = "Storage" ->
            [res |-> Ok(Raw(StorageToRaw(src.storage))), ctor |-> 0]

\* GenesisSource::resolve: the Genesis<G> and how often the constructor ran.
resolve(src, fs) ==
    CASE src.tag = "File" ->
            [res |-> ResolveFile(MapErr(FileOpen(fs, src.path), "Error opening spec file")),
             ctor |-> 0]
      [] src.tag = "Binary" ->
            [res |-> MapErr(ReadGenesisContainer(src.buf), "Error parsing embedded file"),
             ctor |-> 0]
      [] src.tag = "Factory" ->
            [res |-> Ok(Runtime(CallCtor(src.f))), ctor |-> 1]
      [] src.tag = "Storage" ->
            [res |-> Ok(Raw(StorageToRaw(src.storage))), ctor |-> 0]

\* A Raw arm that rebuilds the top-level pairs only.
RawToStorage_TopOnly(raw) ==
    [top |-> Collect({<<Field0(p[1]), Field0(p[2])>> : p \in Iter(raw.top)}),
     children_default |-> <<>>]

\* The Raw arm of build_storage.
RawToStorage(raw) ==
    [top |-> Collect({<<Field0(p[1]), Field0(p[2])>> : p \in Iter(raw.top)}),
     children_default |->
        Collect({<<Field0(p[1]),
                   [data |-> Collect({<<Field0(q[1]), Field0(q[2])>> : q \in Iter(p[2])}),
                    child_info |-> ChildInfoNewDefault(Field0(p[1]))]>> :
                    p \in Iter(raw.children_default)})]

\* The match of build_storage on the resolved genesis r.
BuildStorageMatch(r) ==
    IF ~r.res.ok THEN [res |-> r.res, ctor |-> r.ctor, gbuild |-> 0]
    ELSE IF r.res.val.variant = "Runtime"
    THEN [res |-> GBuildStorage(r.res.val.g), ctor |-> r.ctor, gbuild |-> 1]
    ELSE [res |-> Ok(RawToStorage(r.res.val.raw)), ctor |-> r.ctor, gbuild |-> 0]

\* BuildStorage::build_storage for ChainSpec: the result, and how often the
\* constructor and G's build_storage ran.
build_storage(spec, fs) == BuildStorageMatch(resolve(spec.genesis, fs))

\* The fixed message of line 120 (the source sets the two names in backquotes).
AssimilateError == "assimilate_storage not implemented for ChainSpec."

\* An assimilate_storage that builds the genesis storage and merges it in.
assimilate_storage_merging(spec, storage, fs) ==
    [res |-> IF build_storage(spec, fs).res.ok THEN Ok(<<>>) ELSE build_storage(spec, fs).res,
     storage |-> IF build_storage(spec, fs).res.ok
                 THEN [top |-> build_storage(spec, fs).res.val.top @@ storage.top,
                       children_default |->
                           build_storage(spec, fs).res.val.children_default
                               @@ storage.children_default]
                 ELSE storage,
     ctor |-> build_storage(spec, fs).ctor,
     gbuild |-> build_storage(spec, fs).gbuild]

\* BuildStorage::assimilate_storage for ChainSpec: the result, the caller's
\* storage after the call, and the same counts.
assimilate_storage(spec, storage, fs) ==
    [res |-> Err(AssimilateError), storage |-> storage, ctor |-> 0, gbuild |-> 0]

\* A flattening that files each partition under the key its child_info names.
StorageToRawGenesis_ByChildInfo(storage) ==
    LET top == Collect({<<StorageKey(p[1]), StorageData(p[2])>> : p \in Iter(storage.top)})
        children_default ==
            Collect({<<StorageKey(p[2].child_info.data),
                       Collect({<<StorageKey(q[1]), StorageData(q[2])>> : q \in Iter(p[2].data)})>> :
                        p \in Iter(storage.children_default)})
    IN  Raw(RawGenesis(top, children_default))

\* The (true, Genesis::Runtime(g)) arm of json_container.
StorageToRawGenesis(storage) ==
    LET top == Collect({<<StorageKey(p[1]), StorageData(p[2])>> : p \in Iter(storage.top)})
        children_default ==
            Collect({<<StorageKey(p[1]),
                       Collect({<<StorageKey(q[1]), StorageData(q[2])>> : q \in Iter(p[2].data)})>> :
                        p \in Iter(storage.children_default)})
    IN  Raw(RawGenesis(top, children_default))

\* The (true, Genesis::Runtime(g)) arm, given what g.build_storage() returned.
JsonContainerRaw(spec, r, storage) ==
    [res |-> IF ~storage.ok THEN storage
             ELSE Ok([client_spec |-> spec.client_spec,
                      genesis |-> StorageToRawGenesis(storage.val)]),
     ctor |-> r.ctor, gbuild |-> 1]

\* A match whose raw arm rebuilds a Raw genesis through Storage and flattens
\* it again, counting one storage build.
JsonContainerMatch_Rebuilding(spec, raw, r) ==
    IF ~r.res.ok THEN [res |-> r.res, ctor |-> r.ctor, gbuild |-> 0]
    ELSE IF raw /\ r.res.val.variant = "Runtime"
    THEN JsonContainerRaw(spec, r, GBuildStorage(r.res.val.g))
    ELSE IF raw
    THEN JsonContainerRaw(spec, r, Ok(RawToStorage(r.res.val.raw)))
    ELSE [res |-> Ok([client_spec |-> spec.client_spec, genesis |-> r.res.val]),
          ctor |-> r.ctor, gbuild |-> 0]

\* The match of json_container on (raw, the resolved genesis r).
JsonContainerMatch(spec, raw, r) ==
    IF ~r.res.ok THEN [res |-> r.res, ctor |-> r.ctor, gbuild |-> 0]
    ELSE IF raw /\ r.res.val.variant = "Runtime"
    THEN JsonContainerRaw(spec, r, GBuildStorage(r.res.val.g))
    ELSE [res |-> Ok([client_spec |-> spec.client_spec, genesis |-> r.res.val]),
          ctor |-> r.ctor, gbuild |-> 0]

json_container(spec, raw, fs) == JsonContainerMatch(spec, raw, resolve(spec.genesis, fs))

\* json::to_value of the container c, if there is one.
ToValue(c) ==
    [res |-> IF c.res.ok THEN Ok(SerJsonContainer(c.res.val)) ELSE c.res,
     ctor |-> c.ctor, gbuild |-> c.gbuild]

\* json::to_string_pretty of the container c, if there is one.
ToStringPretty(c) ==
    [res |-> IF c.res.ok THEN Ok(JsonText(SerJsonContainer(c.res.val))) ELSE c.res,
     ctor |-> c.ctor, gbuild |-> c.gbuild]

as_json_value(spec, raw, fs) == ToValue(json_container(spec, raw, fs))

as_json(spec, raw, fs) == ToStringPretty(json_container(spec, raw, fs))

from_genesis(name, id, chain_type, constructor, boot_nodes, telemetry_endpoints, protocol_id, properties, extensions) ==
    [client_spec |-> [name |-> name,
                      id |-> id,
                      chain_type |-> chain_type,
                      boot_nodes |-> boot_nodes,
                      telemetry_endpoints |-> telemetry_endpoints,
                      protocol_id |-> protocol_id,
                      properties |-> properties,
                      extensions |-> extensions,
                      consensus_engine |-> <<>>,
                      genesis |-> "IgnoredAny",
                      light_sync_state |-> None],
     genesis |-> Factory(constructor)]

WithSource(client_spec, source) ==
    IF ~client_spec.ok THEN client_spec
    ELSE Ok([client_spec |-> client_spec.val, genesis |-> source])

\* A loader that parses the genesis payload while loading.
from_json_bytes_eager(json) ==
    IF FromSlice(json).ok /\ DeClientSpec(FromSlice(json).val).ok
       /\ ~ReadGenesisContainer(json).ok
    THEN MapErr(ReadGenesisContainer(json), "Error parsing spec file")
    ELSE WithSource(MapErr(ParseClientSpec(json), "Error parsing spec file"),
                    Binary(json))

from_json_bytes(json) ==
    WithSource(MapErr(ParseClientSpec(json), "Error parsing spec file"),
               Binary(json))

ReadClientSpec(file) == IF file.ok THEN ParseClientSpec(file.val) ELSE file

FromOpened(file, path) ==
    IF ~file.ok THEN file
    ELSE WithSource(MapErr(ReadClientSpec(file), "Error parsing spec file"), File(path))

from_json_file(path, fs) ==
    FromOpened(MapErr(FileOpen(fs, path), "Error opening spec file"), path)

boot_nodes(spec) == spec.client_spec.boot_nodes
name(spec) == spec.client_spec.name
id(spec) == spec.client_spec.id
chain_type(spec) == spec.client_spec.chain_type
telemetry_endpoints(spec) == spec.client_spec.telemetry_endpoints
protocol_id(spec) == spec.client_spec.protocol_id
properties(spec) ==
    IF spec.client_spec.properties.some THEN spec.client_spec.properties.v ELSE <<>>
extensions(spec) == spec.client_spec.extensions
get_light_sync_state(spec) == spec.client_spec.light_sync_state

add_boot_node(spec, addr) ==
    [spec EXCEPT !.client_spec.boot_nodes = Append(@, addr)]

set_light_sync_state(spec, light_sync_state) ==
    [spec EXCEPT !.client_spec.light_sync_state = Some(light_sync_state)]

set_storage(spec, storage) ==
    [spec EXCEPT !.genesis = StorageSource(storage)]

CloneGenesisSource(src) ==
    CASE src.tag = "File" -> File(src.path)
      [] src.tag = "Binary" -> Binary(src.buf)
      [] src.tag = "Factory" -> Factory(src.f)
      [] src.tag = "Storage" -> StorageSource(src.storage)

CloneChainSpec(spec) ==
    [client_spec |-> spec.client_spec, genesis |-> CloneGenesisSource(spec.genesis)]

\* A cloned_box that hands out the same object again.
cloned_box_aliasing(heap, o) == [id |-> o, heap |-> heap]

cloned_box(heap, o) ==
    LET n == CHOOSE n \in ObjIds : heap[n] = NoObj
    IN  [id |-> n, heap |-> [heap EXCEPT ![n] = CloneChainSpec(heap[o])]]

-----------------------------------------------------------------------------
(* LightSyncState *)

\* The three checkpoint types are external; each is modelled as a value whose
\* SCALE encoding is a length byte followed by that many bytes.
ScaleEncode(v) == <<Len(v)>> \o v

\* Decode::decode on a byte slice: reads what the value needs from the front
\* of the input and leaves the rest unread.
ScaleDecode(bytes) ==
    IF bytes = <<>> THEN Err("Not enough data to fill buffer")
    ELSE IF Len(bytes) - 1 < bytes[1] THEN Err("Not enough data to fill buffer")
    ELSE Ok(SubSeq(bytes, 2, bytes[1] + 1))

to_serializable(l) ==
    [finalized_block_header |-> StorageData(ScaleEncode(l.finalized_block_header)),
     babe_epoch_changes |-> StorageData(ScaleEncode(l.babe_epoch_changes)),
     babe_finalized_block_weight |-> l.babe_finalized_block_weight,
     grandpa_authority_set |-> StorageData(ScaleEncode(l.grandpa_authority_set))]

from_serializable(serialized) ==
    LET header == ScaleDecode(Field0(serialized.finalized_block_header))
        epochs == ScaleDecode(Field0(serialized.babe_epoch_changes))
        grandpa == ScaleDecode(Field0(serialized.grandpa_authority_set))
    IN  IF ~header.ok THEN header
        ELSE IF ~epochs.ok THEN epochs
        ELSE IF ~grandpa.ok THEN grandpa
        ELSE Ok([finalized_block_header |-> header.val,
                 babe_epoch_changes |-> epochs.val,
                 babe_finalized_block_weight |-> serialized.babe_finalized_block_weight,
                 grandpa_authority_set |-> grandpa.val])

-----------------------------------------------------------------------------
(* The operations as steps *)

Live(h) == ref[h] # 0
SpecOf(h) == obj[ref[h]]
NewObj == CHOOSE o \in ObjIds : obj[o] = NoObj
Ran(o, n) == [ctorRuns EXCEPT ![o] = @ + n]
\* A Factory spec is resolved at most MaxCalls times.
MayResolve(h) == Live(h) /\ (SpecOf(h).genesis.tag = "Factory" => ctorRuns[ref[h]] < MaxCalls)

FromGenesis(h, constructor) ==
    /\ ~Live(h)
    /\ obj' = [obj EXCEPT ![NewObj] =
                  from_genesis("Test", "test", "Development", constructor, <<>>,
                               None, Some("pid"), None, None)]
    /\ ref' = [ref EXCEPT ![h] = NewObj]
    /\ last' = [op |-> "from_genesis", h |-> h, ctor |-> 0, gbuild |-> 0]
    /\ UNCHANGED <<pallet, cloneOf, ctorRuns, input>>

Loaded(h, opname, r) ==
    /\ IF r.ok
       THEN /\ obj' = [obj EXCEPT ![NewObj] = r.val]
            /\ ref' = [ref EXCEPT ![h] = NewObj]
       ELSE UNCHANGED <<pallet, obj, ref>>
    /\ last' = [op |-> opname, h |-> h, res |-> r, ctor |-> 0, gbuild |-> 0]
    /\ UNCHANGED <<pallet, cloneOf, ctorRuns, input>>

FromJsonBytes(h, json) ==
    /\ ~Live(h)
    /\ Loaded(h, "from_json_bytes", from_json_bytes(json))

FromJsonFile(h, path) ==
    /\ ~Live(h)
    /\ Loaded(h, "from_json_file", from_json_file(path, input.fs))

Boxed(h, h2, c) ==
    /\ obj' = c.heap
    /\ ref' = [ref EXCEPT ![h2] = c.id]
    /\ cloneOf' = [cloneOf EXCEPT ![h2] = h]
    /\ last' = [op |-> "cloned_box", h |-> h, ctor |-> 0, gbuild |-> 0]
    /\ UNCHANGED <<pallet, ctorRuns, input>>

ClonedBox(h, h2) ==
    /\ Live(h) /\ ~Live(h2)
    /\ Boxed(h, h2, cloned_box(obj, ref[h]))

Accessors(h) ==
    /\ Live(h)
    /\ last' = [op |-> "accessors", h |-> h, ctor |-> 0, gbuild |-> 0,
                name |-> name(SpecOf(h)),
                id |-> id(SpecOf(h)),
                chain_type |-> chain_type(SpecOf(h)),
                boot_nodes |-> boot_nodes(SpecOf(h)),
                telemetry_endpoints |-> telemetry_endpoints(SpecOf(h)),
                protocol_id |-> protocol_id(SpecOf(h)),
                properties |-> properties(SpecOf(h)),
                extensions |-> extensions(SpecOf(h)),
                light_sync_state |-> get_light_sync_state(SpecOf(h))]
    /\ UNCHANGED <<pallet, obj, ref, cloneOf, ctorRuns, input>>

AddBootNode(h, addr) ==
    /\ Live(h)
    /\ Len(boot_nodes(SpecOf(h))) < MaxBootNodes
    /\ obj' = [obj EXCEPT ![ref[h]] = add_boot_node(@, addr)]
    /\ last' = [op |-> "add_boot_node", h |-> h, ctor |-> 0, gbuild |-> 0]
    /\ UNCHANGED <<pallet, ref, cloneOf, ctorRuns, input>>

SetLightSyncState(h, light_sync_state) ==
    /\ Live(h)
    /\ obj' = [obj EXCEPT ![ref[h]] = set_light_sync_state(@, light_sync_state)]
    /\ last' = [op |-> "set_light_sync_state", h |-> h, ctor |-> 0, gbuild |-> 0]
    /\ UNCHANGED <<pallet, ref, cloneOf, ctorRuns, input>>

SetStorage(h, storage) ==
    /\ Live(h)
    /\ obj' = [obj EXCEPT ![ref[h]] = set_storage(@, storage)]
    /\ last' = [op |-> "set_storage", h |-> h, ctor |-> 0, gbuild |-> 0]
    /\ UNCHANGED <<pallet, ref, cloneOf, ctorRuns, input>>

\* A resolving call on h returned r.
Returned(h, opname, raw, r) ==
    /\ last' = [op |-> opname, h |-> h, raw |-> raw, res |-> r.res,
                ctor |-> r.ctor, gbuild |-> r.gbuild]
    /\ ctorRuns' = Ran(ref[h], r.ctor)
    /\ UNCHANGED <<pallet, obj, ref, cloneOf, input>>

BuildStorage(h) ==
    /\ MayResolve(h)
    /\ Returned(h, "build_storage", FALSE, build_storage(SpecOf(h), input.fs))

Assimilated(h, storage, r) ==
    /\ last' = [op |-> "assimilate_storage", h |-> h, arg |-> storage,
                res |-> r.res, storage |-> r.storage,
                ctor |-> r.ctor, gbuild |-> r.gbuild]
    /\ ctorRuns' = Ran(ref[h], r.ctor)
    /\ UNCHANGED <<pallet, obj, ref, cloneOf, input>>

AssimilateStorage(h, storage) ==
    /\ Live(h)
    /\ Assimilated(h, storage, assimilate_storage(SpecOf(h), storage, input.fs))

AsJson(h, raw) ==
    /\ MayResolve(h)
    /\ Returned(h, "as_json", raw, as_json(SpecOf(h), raw, input.fs))

AsJsonValue(h, raw) ==
    /\ MayResolve(h)
    /\ Returned(h, "as_json_value", raw, as_json_value(SpecOf(h), raw, input.fs))

Reloaded(h, h2, r) ==
    /\ IF r.ok
       THEN /\ obj' = [obj EXCEPT ![NewObj] = r.val]
            /\ ref' = [ref EXCEPT ![h2] = NewObj]
       ELSE UNCHANGED <<pallet, obj, ref>>
    /\ last' = [op |-> "reload", h |-> h2, from |-> h, res |-> r, ctor |-> 0, gbuild |-> 0]
    /\ UNCHANGED <<pallet, cloneOf, ctorRuns, input>>

\* Load into h2 what the last as_json(false) of h wrote.
Reload(h, h2) ==
    /\ Live(h) /\ ~Live(h2)
    /\ last.op = "as_json" /\ last.h = h /\ ~last.raw /\ last.res.ok
    /\ Reloaded(h, h2, from_json_bytes(last.res.val))

FromSerializable ==
    /\ last' = [op |-> "from_serializable", arg |-> input.lss,
                res |-> from_serializable(input.lss)]
    /\ UNCHANGED <<pallet, obj, ref, cloneOf, ctorRuns, input>>

\* Encode again what the last from_serializable decoded.
ToSerializable ==
    /\ last.op = "from_serializable" /\ last.res.ok
    /\ last' = [op |-> "to_serializable", arg |-> last.res.val,
                res |-> to_serializable(last.res.val)]
    /\ UNCHANGED <<pallet, obj, ref, cloneOf, ctorRuns, input>>

-----------------------------------------------------------------------------
(* The callers' inputs *)

Paths == {"spec.json", "missing.json"}

S1 == [top |-> (1 :> 2), children_default |-> <<>>]
\* A partition stored under key 1 whose child_info names key 2.
S2 == [top |-> <<>>,
       children_default |-> (1 :> [data |-> (2 :> 1), child_info |-> ChildInfoNewDefault(2)])]

GFails == TypedGenesis(Err("storage build failed"))

Lss1 == [finalized_block_header |-> StorageData(<<0>>),
         babe_epoch_changes |-> StorageData(<<1, 0>>),
         babe_finalized_block_weight |-> 0,
         grandpa_authority_set |-> StorageData(<<1, 1>>)]

GenesisRaw(s) == SerGenesis(Raw(StorageToRaw(s)))
GenesisRuntime(g) == SerGenesis(Runtime(g))

FullDoc(genesis) ==
    JObj([name |-> JStr("Test"),
          id |-> JStr("test"),
          chainType |-> JStr("Local"),
          bootNodes |-> JArr(<<JStr("/dns/a/p2p/Qa")>>),
          telemetryEndpoints |-> JStr("wss://telemetry"),
          protocolId |-> JStr("pid"),
          properties |-> JObj([tokenSymbol |-> JStr("X")]),
          consensusEngine |-> JNull,
          genesis |-> genesis,
          lightSyncState |-> SerLightSyncState(Lss1)])

\* name, id, bootNodes and genesis and nothing else.
MinimalDoc(genesis) ==
    JObj([name |-> JStr("Test"),
          id |-> JStr("test"),
          bootNodes |-> JArr(<<>>),
          genesis |-> genesis])

\* The same with the legacy consensusEngine field.
LegacyDoc(genesis) ==
    JObj(MinimalDoc(genesis).o @@ [consensusEngine |-> JNull])

Absent == [absent |-> TRUE]

\* Genesis payloads that are JSON but no Genesis<G>.
BadGenesis ==
    {JNum(7),
     JObj([other |-> JNull]),
     JObj([runtime |-> JNum(1)]),
     JObj([raw |-> JObj([top |-> JObj(<<>>)])]),
     JObj([raw |-> JObj([top |-> JObj(<<>>), childrenDefault |-> JObj(<<>>),
                         extra |-> JNull])]),
     JObj([raw |-> JObj([top |-> JObj([zz |-> JStr("0x01")]), childrenDefault |-> JObj(<<>>)])])}

EditChoices ==
    {<<"name", Absent>>, <<"name", JNum(1)>>,
     <<"id", Absent>>,
     <<"chainType", Absent>>, <<"chainType", JStr("Live")>>, <<"chainType", JStr("Bogus")>>,
     <<"bootNodes", Absent>>, <<"bootNodes", JArr(<<JStr("not-an-address")>>)>>,
     <<"telemetryEndpoints", Absent>>, <<"telemetryEndpoints", JNull>>,
     <<"protocolId", Absent>>, <<"protocolId", JNum(1)>>,
     <<"properties", Absent>>, <<"properties", JObj(<<>>)>>,
     <<"consensusEngine", Absent>>, <<"consensusEngine", JNull>>,
     <<"consensusEngine", JStr("babe")>>,
     <<"genesis", Absent>>, <<"genesis", GenesisRuntime(TypedGenesis(Ok(S2)))>>,
     <<"genesis", GenesisRuntime(GFails)>>,
     <<"lightSyncState", Absent>>, <<"lightSyncState", JNull>>,
     <<"lightSyncState", JObj([finalizedBlockHeader |-> JHex(<<0>>)])>>,
     <<"foo", JNum(1)>>}
        \cup {<<"genesis", g>> : g \in BadGenesis}

\* The sets of at most n edits, no two of the same field.
RECURSIVE EditSetsUpTo(_)
EditSetsUpTo(n) ==
    IF n = 0 THEN {{}}
    ELSE LET smaller == EditSetsUpTo(n - 1)
         IN  smaller \cup
             {es \cup {e} : es \in smaller,
                            e \in EditChoices}

EditSets ==
    {es \in EditSetsUpTo(MaxEdits) : \A e1, e2 \in es : e1[1] = e2[1] => e1 = e2}

ApplyEdits(doc, es) ==
    LET removed == {e[1] : e \in {x \in es : x[2] = Absent}}
        set == {e \in es : e[2] # Absent}
        fields == (DOMAIN doc.o \ removed) \cup {e[1] : e \in set}
    IN  JObj([f \in fields |->
                 IF \E e \in set : e[1] = f
                 THEN (CHOOSE e \in set : e[1] = f)[2]
                 ELSE doc.o[f]])

Docs ==
    {JsonText(ApplyEdits(base, es)) :
        base \in {FullDoc(GenesisRaw(S1)), MinimalDoc(GenesisRaw(S2))}, es \in EditSets}
        \cup {NotJson}

BlobBytes == {0, 1, 2}
\* byte strings of at most MaxBlobLen bytes
Blobs == UNION {[1..n -> BlobBytes] : n \in 0..MaxBlobLen}

SerializedStates ==
    {[finalized_block_header |-> StorageData(b1),
      babe_epoch_changes |-> StorageData(b2),
      babe_finalized_block_weight |-> 0,
      grandpa_authority_set |-> StorageData(b3)] : b1 \in Blobs, b2 \in Blobs, b3 \in Blobs}

CtorInputs == {Ctor(TypedGenesis(Ok(S2))), Ctor(GFails)}
StorageInputs == {S1, S2}
DocInputs == {JsonText(FullDoc(GenesisRuntime(TypedGenesis(Ok(S1))))),
              JsonText(FullDoc(JNum(7)))}
LssInputs == {Lss1}

MainInput ==
    [fs |-> ("spec.json" :> JsonText(FullDoc(GenesisRaw(S2)))),
     storage |-> S1,
     doc |-> NotJson,
     lss |-> Lss1]

-----------------------------------------------------------------------------
(* frame/example-parallel: enlisting participants *)

Accounts == {1, 2}
\* Event ids; the storage default of CurrentEventId is the empty id.
EmptyEventId == ""
EventIds == {"e1", "e2"}

\* A well-formed signature is one made by an account over a message.
WellFormed(by, over) == [well_formed |-> TRUE, by |-> by, over |-> over]
Malformed == [well_formed |-> FALSE]

EnlistedParticipant(account, signature) == [account |-> account, signature |-> signature]

\* sr25519::Signature::try_from on the signature bytes.
SignatureTryFrom(bytes) == IF bytes.well_formed THEN Ok(bytes) ELSE Err("bad length")
\* sr25519::Public::from_slice on the account bytes.
PublicFromSlice(account) == account
\* Verify::verify of a signature on a message under a public key.
SignatureVerify(signature, msg, public) == signature.by = public /\ signature.over = msg

\* EnlistedParticipant::verify
verify(participant, event_id) ==
    IF SignatureTryFrom(participant.signature).ok
    THEN SignatureVerify(SignatureTryFrom(participant.signature).val, event_id,
                         PublicFromSlice(participant.account))
    ELSE FALSE

\* ensure_signed
ensure_signed(origin) == IF origin = "Signed" THEN Ok(origin) ELSE Err("BadOrigin")
Origins == {"Signed", "None"}

\* bool's encoding and decoding.
EncodeBool(b) == IF b THEN <<1>> ELSE <<0>>
DecodeBool(bytes) == bytes[1] = 1

\* The payload handed to the task: the encoded event id, then the encoded list.
EncodePayload(event_id, list) == <<[vec |-> event_id], [vec |-> list]>>
DecodeEventId(data) == data[1].vec
DecodeParticipants(data) == data[2].vec

\* &participants[..end], end counted as in the source (from 0, exclusive).
SliceTo(participants, end) == SubSeq(participants, 1, end)
\* &participants[start..]: the range start must not exceed the length.
SliceFromPanics(participants, start) == start > Len(participants)
SliceFrom(participants, start) == SubSeq(participants, start + 1, Len(participants))

\* The slice the task is sent (line 133) and the start of the slice the calling
\* thread checks (line 138).
TaskSlice(participants) == SliceTo(participants, Len(participants) \div 2)
CallerStart(participants) == Len(participants) \div 2 + 1

NoTask == [data |-> <<>>, i |-> 0, done |-> TRUE, out |-> <<>>]
NoCall == [pc |-> "idle", participants |-> <<>>, task |-> NoTask,
           rest |-> <<>>, i |-> 0, result |-> TRUE, done |-> TRUE]

PalletInit == [Participants |-> <<>>, CurrentEventId |-> EmptyEventId, call |-> NoCall]

Idle == pallet.call.pc = "idle"

\* What a finished dispatch leaves in last.
Dispatched(opname, origin, participants, res, panicked) ==
    [op |-> opname, h |-> "", ctor |-> 0, gbuild |-> 0,
     origin |-> origin, participants |-> participants, res |-> res,
     panicked |-> panicked,
     event_id |-> pallet.CurrentEventId, before |-> pallet.Participants]

\* run_event(origin, id)
RunEvent(origin, event_id) ==
    /\ Idle
    /\ IF ensure_signed(origin).ok
       THEN pallet' = [pallet EXCEPT !.Participants = <<>>, !.CurrentEventId = event_id]
       ELSE UNCHANGED pallet
    /\ last' = Dispatched("run_event", origin, <<>>,
                          IF ensure_signed(origin).ok THEN Ok(<<>>) ELSE ensure_signed(origin),
                          FALSE)
    /\ UNCHANGED <<obj, ref, cloneOf, ctorRuns, input>>

\* enlist_participants up to the loop of line 138: the origin check, the
\* payload, the spawn, and the slice the calling thread is to check.
EnlistParticipants(origin, participants) ==
    /\ Idle
    /\ Len(pallet.Participants) + Len(participants) <= MaxEnlisted
    /\ IF ~ensure_signed(origin).ok
       THEN /\ UNCHANGED pallet
            /\ last' = Dispatched("enlist_participants", origin, participants,
                                  ensure_signed(origin), FALSE)
       ELSE IF SliceFromPanics(participants, CallerStart(participants))
       THEN /\ UNCHANGED pallet
            /\ last' = Dispatched("enlist_participants", origin, participants,
                                  Err("range start index out of range for slice"), TRUE)
       ELSE /\ pallet' = [pallet EXCEPT !.call =
                            [pc |-> "validating",
                             participants |-> participants,
                             task |-> [data |-> EncodePayload(pallet.CurrentEventId,
                                                              TaskSlice(participants)),
                                       i |-> 1, done |-> FALSE, out |-> <<>>],
                             rest |-> SliceFrom(participants, CallerStart(participants)),
                             i |-> 1, result |-> TRUE, done |-> FALSE]]
            /\ last' = Dispatched("spawn", origin, participants, Ok(<<>>), FALSE)
    /\ UNCHANGED <<obj, ref, cloneOf, ctorRuns, input>>

\* One turn of the loop of spawn_verify, in the spawned task.
TaskLoop(task) ==
    IF task.i > Len(DecodeParticipants(task.data))
    THEN [task EXCEPT !.done = TRUE, !.out = EncodeBool(TRUE)]
    ELSE IF ~verify(DecodeParticipants(task.data)[task.i], DecodeEventId(task.data))
    THEN [task EXCEPT !.done = TRUE, !.out = EncodeBool(FALSE)]
    ELSE [task EXCEPT !.i = @ + 1]

SpawnVerify ==
    /\ pallet.call.pc = "validating"
    /\ ~pallet.call.task.done
    /\ pallet' = [pallet EXCEPT !.call.task = TaskLoop(@)]
    /\ last' = [last EXCEPT !.op = "spawn_verify"]
    /\ UNCHANGED <<obj, ref, cloneOf, ctorRuns, input>>

\* One turn of the loop of lines 138-143, in the calling thread.
CallerLoop(call, event_id) ==
    IF call.i > Len(call.rest) THEN [call EXCEPT !.done = TRUE]
    ELSE IF ~verify(call.rest[call.i], event_id)
    THEN [call EXCEPT !.result = FALSE, !.done = TRUE]
    ELSE [call EXCEPT !.i = @ + 1]

CallerVerify ==
    /\ pallet.call.pc = "validating"
    /\ ~pallet.call.done
    /\ pallet' = [pallet EXCEPT !.call = CallerLoop(@, pallet.CurrentEventId)]
    /\ last' = [last EXCEPT !.op = "caller_verify"]
    /\ UNCHANGED <<obj, ref, cloneOf, ctorRuns, input>>

\* Participants::append of each account, in order.
AppendAccounts(stored, participants) ==
    stored \o [i \in DOMAIN participants |-> participants[i].account]

\* The join of line 145 and the rest of enlist_participants.
JoinAndEnlist ==
    /\ pallet.call.pc = "validating"
    /\ pallet.call.done /\ pallet.call.task.done
    /\ pallet' = [pallet EXCEPT
                     !.Participants =
                         IF DecodeBool(pallet.call.task.out) /\ pallet.call.result
                         THEN AppendAccounts(@, pallet.call.participants)
                         ELSE @,
                     !.call = NoCall]
    /\ last' = Dispatched("enlist_participants", "Signed", pallet.call.participants,
                          Ok(<<>>), FALSE)
    /\ UNCHANGED <<obj, ref, cloneOf, ctorRuns, input>>

\* The participants offered: two signed for e1, one signed for e2, one whose
\* signature is not a signature.
Pool ==
    {EnlistedParticipant(1, WellFormed(1, "e1")),
     EnlistedParticipant(2, WellFormed(2, "e1")),
     EnlistedParticipant(1, WellFormed(1, "e2")),
     EnlistedParticipant(2, Malformed)}

ParticipantLists == UNION {[1..n -> Pool] : n \in 0..MaxParticipants}

-----------------------------------------------------------------------------
(* Specifications *)

InitHeap ==
    /\ pallet = PalletInit
    /\ obj = [o \in ObjIds |-> NoObj]
    /\ ref = [h \in Handles |-> 0]
    /\ cloneOf = [h \in Handles |-> ""]
    /\ ctorRuns = [o \in ObjIds |-> 0]
    /\ last = [op |-> "init", h |-> "", ctor |-> 0, gbuild |-> 0]

\* A spec a under every operation of the trait object, and a clone b of it.
Init ==
    /\ InitHeap
    /\ input = MainInput

Next ==
    \/ \E c \in CtorInputs : FromGenesis("a", c)
    \/ \E d \in DocInputs : FromJsonBytes("a", d)
    \/ \E p \in Paths : FromJsonFile("a", p)
    \/ ClonedBox("a", "b")
    \/ \E h \in Handles : Accessors(h)
    \/ \E a \in BootNodeAddrs : AddBootNode("a", a)
    \/ \E l \in LssInputs : SetLightSyncState("a", l)
    \/ \E s \in StorageInputs : SetStorage("a", s)
    \/ \E h \in Handles : BuildStorage(h)
    \/ \E s \in StorageInputs : AssimilateStorage("a", s)
    \/ \E h \in Handles, raw \in BOOLEAN : AsJson(h, raw)
    \/ \E raw \in BOOLEAN : AsJsonValue("a", raw)

Spec == Init /\ [][Next]_vars

\* A spec a and its clone b, each under the three mutators.
NextClone ==
    \/ \E c \in CtorInputs : FromGenesis("a", c)
    \/ \E d \in DocInputs : FromJsonBytes("a", d)
    \/ \E p \in Paths : FromJsonFile("a", p)
    \/ ClonedBox("a", "b")
    \/ \E h \in Handles :
          \/ \E a \in BootNodeAddrs : AddBootNode(h, a)
          \/ \E l \in LssInputs : SetLightSyncState(h, l)
          \/ \E s \in StorageInputs : SetStorage(h, s)

SpecClone == Init /\ [][NextClone]_vars

\* One spec, every Storage: as the constructor's output and as a snapshot.
InitStorage ==
    /\ InitHeap
    /\ input \in [fs : {<<>>}, storage : Storages, doc : {NotJson}, lss : {Lss1}]

NextStorage ==
    \/ FromGenesis("a", Ctor(TypedGenesis(Ok(input.storage))))
    \/ FromGenesis("a", Ctor(GFails))
    \/ FromJsonBytes("a", JsonText(LegacyDoc(GenesisRaw(input.storage))))
    \/ FromJsonBytes("a", JsonText(LegacyDoc(GenesisRuntime(TypedGenesis(Ok(input.storage))))))
    \/ SetStorage("a", input.storage)
    \/ BuildStorage("a")
    \/ \E raw \in BOOLEAN : AsJson("a", raw)

SpecStorage == InitStorage /\ [][NextStorage]_vars

\* One document, in a buffer and in a file: load, read, dump, load again.
InitJson ==
    /\ InitHeap
    /\ \E d \in Docs :
          input = [fs |-> ("spec.json" :> d), storage |-> S1, doc |-> d, lss |-> Lss1]

NextJson ==
    \/ FromJsonBytes("a", input.doc)
    \/ \E p \in Paths : FromJsonFile("a", p)
    \/ Accessors("a")
    \/ BuildStorage("a")
    \/ \E raw \in BOOLEAN : AsJson("a", raw)
    \/ Reload("a", "b")

SpecJson == InitJson /\ [][NextJson]_vars

\* One serialized light sync state, any three blobs.
InitLight ==
    /\ InitHeap
    /\ \E s \in SerializedStates :
          input = [fs |-> <<>>, storage |-> S1, doc |-> NotJson, lss |-> s]

NextLight ==
    \/ FromSerializable
    \/ ToSerializable

SpecLight == InitLight /\ [][NextLight]_vars

\* The pallet under dispatches of its two calls; the task and the calling
\* thread of a call take their turns in any order.
InitParallel ==
    /\ InitHeap
    /\ input = MainInput

NextParallel ==
    \/ \E origin \in Origins, e \in EventIds : RunEvent(origin, e)
    \/ \E origin \in Origins, ps \in ParticipantLists : EnlistParticipants(origin, ps)
    \/ SpawnVerify
    \/ CallerVerify
    \/ JoinAndEnlist

SpecParallel == InitParallel /\ [][NextParallel]_vars

-----------------------------------------------------------------------------
(* Storage round trip and raw dumps (SpecStorage) *)

ResolvedOf(h) == resolve(SpecOf(h).genesis, input.fs).res

\* The JSON form of a key/value mapping, written from the Storage itself.
FlatPairs(m) == JObj([s \in {Hex(k) : k \in DOMAIN m} |-> JStr(Hex(m[FromHex(s)]))])

\* The raw genesis payload that flattens a Storage: its top pairs, and one
\* childrenDefault entry per partition holding that partition's data.
Flattening(storage) ==
    JObj([raw |->
        JObj([top |-> FlatPairs(storage.top),
              childrenDefault |->
                 JObj([s \in {Hex(k) : k \in DOMAIN storage.children_default} |->
                          FlatPairs(storage.children_default[FromHex(s)].data)])])])

\* C1: after set_storage(s), build_storage() succeeds and returns a Storage
\* with the top pairs of s and, under exactly the child keys of s, partitions
\* holding the same pairs as those of s (each tagged with the default
\* child-info of the key it is stored under).
C1_StorageRoundTrip ==
    (last.op = "build_storage" /\ SpecOf("a").genesis.tag = "Storage") =>
        /\ last.res.ok
        /\ last.res.val.top = input.storage.top
        /\ DOMAIN last.res.val.children_default = DOMAIN input.storage.children_default
        /\ \A k \in DOMAIN input.storage.children_default :
              /\ last.res.val.children_default[k].data = input.storage.children_default[k].data
              /\ last.res.val.children_default[k].child_info = ChildInfoNewDefault(k)

\* A snapshot with top pairs and two partitions, one of them stored under a
\* key its child_info does not name, was set and built again.
C1_Witness ==
    /\ last.op = "build_storage"
    /\ SpecOf("a").genesis.tag = "Storage"
    /\ input.storage.top # <<>>
    /\ Cardinality(DOMAIN input.storage.children_default) = 2
    /\ \E k \in DOMAIN input.storage.children_default :
          /\ input.storage.children_default[k].child_info # ChildInfoNewDefault(k)
          /\ input.storage.children_default[k].data # <<>>

\* C2: when the genesis resolves to Runtime(g) and g's build_storage succeeds,
\* the genesis payload of as_json(true) is the raw payload that flattens what
\* build_storage() returns: the same top pairs and one childrenDefault entry
\* per partition with that partition's data, whatever its child_info.
C2_RawDumpFlattensBuiltStorage ==
    (/\ last.op = "as_json" /\ last.raw
     /\ ResolvedOf("a").ok /\ ResolvedOf("a").val.variant = "Runtime"
     /\ GBuildStorage(ResolvedOf("a").val.g).ok) =>
        /\ last.res.ok
        /\ build_storage(SpecOf("a"), input.fs).res.ok
        /\ last.res.val.json.o.genesis
              = Flattening(build_storage(SpecOf("a"), input.fs).res.val)

\* A Factory spec whose storage has two partitions with the same child_info
\* was dumped raw.
C2_Witness ==
    /\ last.op = "as_json" /\ last.raw /\ last.res.ok
    /\ SpecOf("a").genesis.tag = "Factory"
    /\ Cardinality(DOMAIN input.storage.children_default) = 2
    /\ \A k \in DOMAIN input.storage.children_default :
          input.storage.children_default[k].child_info = ChildInfoNewDefault(1)

\* C3: when the genesis resolves to Raw (a raw JSON genesis, or a snapshot set
\* by set_storage), as_json(true) and as_json(false) both succeed with the
\* same genesis payload, and neither runs G's build_storage.
C3_RawDumpsAlike ==
    (/\ last.op = "as_json"
     /\ ResolvedOf("a").ok /\ ResolvedOf("a").val.variant = "Raw") =>
        /\ last.res.ok
        /\ as_json(SpecOf("a"), ~last.raw, input.fs).res.ok
        /\ last.res.val.json.o.genesis
              = as_json(SpecOf("a"), ~last.raw, input.fs).res.val.json.o.genesis
        /\ last.gbuild = 0
        /\ as_json(SpecOf("a"), ~last.raw, input.fs).gbuild = 0

\* A snapshot with a partition was set on a Factory spec and dumped raw.
C3_Witness ==
    /\ last.op = "as_json" /\ last.raw /\ last.res.ok
    /\ SpecOf("a").genesis.tag = "Storage"
    /\ input.storage.children_default # <<>>
    /\ input.storage.top # <<>>

-----------------------------------------------------------------------------
(* The trait object (Spec) *)

\* C4: assimilate_storage returns the fixed error, leaves the caller's
\* Storage as it was, and runs neither the constructor nor G's build_storage.
C4_AssimilateAlwaysFails ==
    last.op = "assimilate_storage" =>
        /\ last.res = Err(AssimilateError)
        /\ last.storage = last.arg
        /\ last.ctor = 0
        /\ last.gbuild = 0

\* assimilate_storage was called on a Factory spec with a non-empty Storage.
C4_Witness ==
    /\ last.op = "assimilate_storage"
    /\ SpecOf(last.h).genesis.tag = "Factory"
    /\ last.arg # EmptyStorage

Resolving == {"build_storage", "as_json", "as_json_value"}

\* What a resolving call on a Factory spec returns when the constructor's
\* output is wrapped as Runtime.
OfRuntime(opname, raw, spec) ==
    IF opname = "as_json" /\ ~raw /\ spec.genesis.tag = "Factory"
    THEN Ok(JsonText(JObj(SerClientSpecFields(spec.client_spec)
                           @@ [genesis |-> JObj([runtime |-> JTyped(CallCtor(spec.genesis.f))])])))
    ELSE IF opname = "build_storage" /\ spec.genesis.tag = "Factory"
    THEN GBuildStorage(CallCtor(spec.genesis.f))
    ELSE Ok(<<>>)

\* C9: a step runs the constructor of a spec exactly once if it is a
\* build_storage, as_json or as_json_value call on that spec while its source
\* is a Factory, and not at all otherwise (construction, cloning, accessors,
\* add_boot_node, set_light_sync_state, set_storage, assimilate_storage, and
\* every call after set_storage); build_storage and as_json(false) return
\* what the constructor's output, wrapped as Runtime, gives.
C9_ResolutionNeverCached ==
    [][/\ \A o \in ObjIds :
            ctorRuns'[o] = ctorRuns[o] +
                (IF /\ last'.op \in Resolving
                    /\ ref[last'.h] = o
                    /\ obj[o].genesis.tag = "Factory"
                 THEN 1 ELSE 0)
       /\ (/\ last'.op \in {"build_storage", "as_json"}
           /\ ~last'.raw
           /\ obj[ref[last'.h]].genesis.tag = "Factory")
            => last'.res = OfRuntime(last'.op, last'.raw, obj[ref[last'.h]])
      ]_vars

\* A spec ran its constructor MaxCalls times, was given a snapshot, built its
\* storage again, and has a clone that never ran it.
C9_Witness ==
    /\ last.op = "build_storage" /\ last.h = "a"
    /\ SpecOf("a").genesis.tag = "Storage"
    /\ ctorRuns[ref["a"]] = MaxCalls
    /\ Live("b") /\ SpecOf("b").genesis.tag = "Factory"
    /\ ctorRuns[ref["b"]] = 0

-----------------------------------------------------------------------------
(* Loading and dumping documents (SpecJson) *)

Loads == {"from_json_bytes", "from_json_file"}

\* The document is a JSON object with a genesis field.
HasPayload(buf) == buf.valid /\ IsObj(buf.json) /\ Has(buf.json, "genesis")

\* ... whose genesis field is no Genesis<G>.
BadPayload(buf) == HasPayload(buf) /\ ~DeGenesis(buf.json.o.genesis).ok

\* The same document with another genesis payload.
WithGenesis(buf, genesis) ==
    JsonText(JObj([f \in DOMAIN buf.json.o |->
                      IF f = "genesis" THEN genesis ELSE buf.json.o[f]]))

\* The load that last.op names did read the document (not a missing file).
ReadTheDoc == last.res.ok \/ last.res.err # "Error opening spec file"

\* C5: loading reads the metadata only. Whether a document loads does not
\* depend on its genesis payload, and a loaded spec keeps the buffer or the
\* path unparsed; a spec loaded from a document with a malformed payload
\* answers its accessors from the document, and build_storage and as_json are
\* where the parse error appears.
C5_GenesisParsedLazily ==
    /\ (last.op \in Loads /\ last.res.ok) =>
          SpecOf("a").genesis \in {Binary(input.doc), File("spec.json")}
    /\ (last.op = "from_json_bytes" /\ HasPayload(input.doc)) =>
          last.res.ok = from_json_bytes(WithGenesis(input.doc, GenesisRaw(S1))).ok
    /\ (last.op = "from_json_file" /\ ReadTheDoc /\ HasPayload(input.doc)) =>
          last.res.ok = from_json_file("spec.json",
                           "spec.json" :> WithGenesis(input.doc, GenesisRaw(S1))).ok
    /\ (last.op = "accessors" /\ BadPayload(input.doc)) =>
          /\ last.name = input.doc.json.o.name.s
          /\ last.id = input.doc.json.o.id.s
          /\ Len(last.boot_nodes) = Len(input.doc.json.o.bootNodes.a)
    /\ (last.op \in {"build_storage", "as_json"} /\ BadPayload(input.doc)) =>
          /\ ~last.res.ok
          /\ last.res.err = (IF SpecOf("a").genesis.tag = "Binary"
                             THEN "Error parsing embedded file"
                             ELSE "Error parsing spec file")

\* A document whose genesis is not a Genesis<G> was loaded from memory and
\* build_storage reported the parse error.
C5_Witness ==
    /\ last.op = "build_storage" /\ ~last.res.ok
    /\ Live("a") /\ SpecOf("a").genesis.tag = "Binary"
    /\ BadPayload(input.doc)
    /\ name(SpecOf("a")) = "Test"

\* C6: as_json(false) succeeds on a spec whose genesis resolves, and loading
\* its output gives a spec with equal metadata whose genesis resolves to the
\* same value.
C6_JsonRoundTrip ==
    /\ (last.op = "as_json" /\ ~last.raw /\ ResolvedOf("a").ok) => last.res.ok
    /\ last.op = "reload" =>
          /\ last.res.ok
          /\ SpecOf("b").client_spec = SpecOf("a").client_spec
          /\ ResolvedOf("b").ok
          /\ ResolvedOf("b") = ResolvedOf("a")

\* A file-loaded spec with a runtime genesis and no chainType in its document
\* was dumped and loaded again.
C6_Witness ==
    /\ last.op = "reload" /\ last.res.ok
    /\ SpecOf("a").genesis.tag = "File"
    /\ ~Has(input.doc.json, "chainType")
    /\ ResolvedOf("b").val.variant = "Runtime"

OptionalFields == {"chainType", "telemetryEndpoints", "protocolId", "properties",
                   "lightSyncState"}

\* C7, as the specification states it: a load that reads the document fails
\* when the document has a top-level field outside the known set or lacks
\* name, id or bootNodes, and succeeds on a document of name, id, bootNodes
\* and genesis with none of the optional fields.
C7_LoadSchema ==
    (last.op \in Loads /\ ReadTheDoc /\ input.doc.valid /\ IsObj(input.doc.json)) =>
        /\ DOMAIN input.doc.json.o \ (ClientSpecFields \cup ExtensionFields) # {}
              => ~last.res.ok
        /\ {"name", "id", "bootNodes"} \ DOMAIN input.doc.json.o # {}
              => ~last.res.ok
        /\ input.doc = JsonText(MinimalDoc(GenesisRaw(S2)))
              => last.res.ok

-----------------------------------------------------------------------------
(* Light sync state blobs (SpecLight) *)

\* The blob is exactly the encoding of some value.
Canonical(blob) == \E v \in Blobs : ScaleEncode(v) = blob

BlobsOf(serialized) ==
    {Field0(serialized.finalized_block_header),
     Field0(serialized.babe_epoch_changes),
     Field0(serialized.grandpa_authority_set)}

\* C8, as the specification states it: from_serializable fails unless each of
\* the three blobs is exactly the encoding of a value, so it rejects truncated
\* blobs and blobs with bytes after the value.
C8_RejectsNonCanonicalBlobs ==
    last.op = "from_serializable" =>
        (last.res.ok => \A blob \in BlobsOf(last.arg) : Canonical(blob))

-----------------------------------------------------------------------------
(* Clones (SpecClone) *)

Mutators == {"add_boot_node", "set_storage", "set_light_sync_state"}

\* What a caller can see of the spec behind h: its metadata, the genesis it
\* resolves to (as_json serialises these two) and the storage it builds.
Observed(h) ==
    [client_spec |-> SpecOf(h).client_spec,
     boot_nodes |-> boot_nodes(SpecOf(h)),
     light_sync_state |-> get_light_sync_state(SpecOf(h)),
     storage |-> build_storage(SpecOf(h), input.fs).res,
     genesis |-> ResolvedOf(h)]

\* C10: add_boot_node, set_storage and set_light_sync_state on one handle
\* leave what the other handle's spec shows (boot nodes, light sync state,
\* metadata, resolved genesis, build_storage result) unchanged; a clone starts
\* equal to its original, sharing the constructor.
C10_CloneOwnsItsState ==
    [][/\ \A h \in Handles :
            (last'.op \in Mutators /\ last'.h # h /\ Live(h))
                => Observed(h)' = Observed(h)
       /\ last'.op = "cloned_box"
            => /\ ref'["b"] # ref'["a"]
               /\ obj'[ref'["b"]] = obj[ref["a"]]
               /\ obj'[ref'["a"]] = obj[ref["a"]]
      ]_vars

\* The clone of a Factory spec was given a snapshot and the two now differ in
\* boot nodes and light sync state as well.
C10_Witness ==
    /\ cloneOf["b"] = "a"
    /\ last.op = "set_storage" /\ last.h = "b"
    /\ SpecOf("a").genesis.tag = "Factory"
    /\ boot_nodes(SpecOf("a")) # boot_nodes(SpecOf("b"))
    /\ get_light_sync_state(SpecOf("a")) # get_light_sync_state(SpecOf("b"))

-----------------------------------------------------------------------------
(* Enlisting participants (SpecParallel) *)

\* C11, as the specification states it: a finished enlist_participants call
\* did not panic, whatever the length of the list, and if any submitted
\* participant's signature does not verify against the current event id then
\* Participants is as it was before the call.
C11_EnlistsOnlyVerified ==
    last.op = "enlist_participants" =>
        /\ ~last.panicked
        /\ (\E i \in DOMAIN last.participants :
                ~verify(last.participants[i], last.event_id))
              => pallet.Participants = last.before

====
